---- MODULE Spec2Model ----
(***************************************************************************)
(* A model of the ts-mapper core: the path accessor (getValue / setValue), *)
(* the metadata storage (rule registry), the mapping executor (transform)  *)
(* and the auto-implementing proxy (createMapperProxy).                    *)
(*                                                                         *)
(* JavaScript values are records tagged by "t"; objects live in a heap (a  *)
(* sequence of objects, a reference is an index into it), so that object   *)
(* identity, aliasing and mutation are visible.  A path string is a        *)
(* sequence of tokens, a token being an identifier or the separator ".".   *)
(***************************************************************************)
EXTENDS Integers, Sequences, FiniteSets, TLC

VARIABLES
    mappers,    \* MetadataStorage.mappers: the Map, as a sequence of entries in insertion order
    heap,       \* the objects allocated so far
    instances,  \* the mapper instances handed to callers (plain `new M()` or proxies)
    calls       \* the calls made so far, each with the heap it started from

vars == <<mappers, heap, instances, calls>>

\* the heap the i-th call left behind: the one the next call started from
PostOf(i) == IF i < Len(calls) THEN calls[i + 1].pre ELSE heap

MaxCalls == 2
MaxMappings == 3
MaxInstances == 1
\* how many statements or comments the body of a classified method holds
MaxStatements == 3
\* how deep a comparison of two object graphs unfolds
MaxDepth == 3
MaxOps == 3

----------------------------------------------------------------------------
(* JavaScript values *)

Undefined == [t |-> "undefined"]
Null == [t |-> "null"]
Num(n) == [t |-> "number", n |-> n]
Str(s) == [t |-> "string", s |-> s]
Bool(b) == [t |-> "boolean", b |-> b]
Ref(r) == [t |-> "ref", r |-> r]
\* a function declared by a class: the class itself (name "constructor") or a method
Fn(cls, name) == [t |-> "function", cls |-> cls, name |-> name]

\* the typeof operator
TypeOf(v) ==
    CASE v.t = "ref" -> "object"
      [] v.t = "null" -> "object"
      [] v.t = "proxy" -> "object"
      [] OTHER -> v.t

\* x == null, the test behind ?. and ??=
IsNullish(v) == v.t \in {"undefined", "null"}

\* an object of the heap, or the proxy of one (a write to the proxy reaches its target)
IsObject(v) == v.t \in {"ref", "proxy"}

EmptyProps == [k \in {} |-> Undefined]

\* an object: its class (which fixes its prototype) and its own properties
Obj(cls, props) == [cls |-> cls, props |-> props]


----------------------------------------------------------------------------
(* Classes: prototypes and constructors *)

\* own property names of Object.prototype (the part of them that matters here)
ObjectProtoNames == {"constructor", "hasOwnProperty", "toString", "valueOf"}

\* the methods a mapper class declares
MethodsOf(cls) ==
    CASE cls = "UserMapper" -> {"toDto", "toEntity"}
      [] cls = "UserAbstractMapper" -> {"toDto", "toDtoWithValidation"}
      [] cls \in {"BareMapper", "BrokenMapper"} -> {"toDto"}
      [] OTHER -> {}

\* Object.getOwnPropertyNames(C.prototype)
ProtoNames(cls) ==
    IF cls = "Object" THEN ObjectProtoNames ELSE {"constructor"} \cup MethodsOf(cls)

\* a property that is not an own property, looked up along the prototype chain
ProtoGet(cls, key) ==
    IF key \in ProtoNames(cls) THEN Fn(cls, key)
    ELSE IF key \in ObjectProtoNames THEN Fn("Object", key)
    ELSE Undefined

\* templates: what a constructor or an object literal builds
ValT(v) == [kind |-> "val", v |-> v]
ObjT(cls, fields) == [kind |-> "obj", cls |-> cls, fields |-> fields]

RECURSIVE Build(_, _)
RECURSIVE BuildFields(_, _, _)
\* allocate the object graph of a template; [h: the heap after, v: the value built]
Build(h, tm) ==
    IF tm.kind = "val" THEN [h |-> h, v |-> tm.v]
    ELSE [h |-> BuildFields(Append(h, Obj(tm.cls, EmptyProps)), Len(h) + 1, tm.fields),
          v |-> Ref(Len(h) + 1)]
\* object r gets the field whose value b has been built, then the other fields
LinkField(b, r, key, rest) ==
    BuildFields([b.h EXCEPT ![r].props = (key :> b.v) @@ @], r, rest)
BuildFields(h, r, fields) ==
    IF fields = <<>> THEN h
    ELSE LinkField(Build(h, Head(fields)[2]), r, Head(fields)[1], Tail(fields))

----------------------------------------------------------------------------
(* Property access *)

HasOwn(h, r, key) == key \in DOMAIN h[r].props

\* target[key] on an object of the heap (Reflect.get on the proxy's target)
ReflectGet(h, r, key) ==
    IF HasOwn(h, r, key) THEN h[r].props[key] ELSE ProtoGet(h[r].cls, key)

\* the function the proxy's get trap returns in place of a function-valued property
Wrapper(original, r) == [t |-> "function", wraps |-> original, target |-> r]

\* a get trap that returns every property as it is
ProxyGetRaw(h, r, key) == ReflectGet(h, r, key)

\* the get trap of the proxy made by createMapperProxy
ProxyGet(h, r, key) ==
    LET original == ReflectGet(h, r, key)
    IN IF TypeOf(original) = "function" THEN Wrapper(original, r) ELSE original

\* v[key] for a value that is neither null nor undefined
Member(h, v, key) ==
    CASE v.t = "ref" -> ReflectGet(h, v.r, key)
      [] v.t = "proxy" -> ProxyGet(h, v.r, key)
      [] OTHER -> Undefined    \* a primitive has none of the keys used here

\* obj[key] = value on an object of the heap
Assign(h, r, key, value) == [h EXCEPT ![r].props = (key :> value) @@ @]

----------------------------------------------------------------------------
(* Path strings *)

Dot == "."

RECURSIVE SplitFrom(_, _, _)
\* path.split('.'): the segments between the separators, empty ones included
SplitFrom(tokens, cur, done) ==
    IF tokens = <<>> THEN Append(done, cur)
    ELSE IF Head(tokens) = Dot THEN SplitFrom(Tail(tokens), "", Append(done, cur))
    ELSE SplitFrom(Tail(tokens), cur \o Head(tokens), done)
Split(path) == SplitFrom(path, "", <<>>)

----------------------------------------------------------------------------
(* getValue and setValue *)

\* one step of the reduce in getValue: acc?.[key].  The state of the walk is
\* [h: the heap, acc: the accumulator, threw: whether a TypeError was raised]
\* (OptChainNoGuard is the step with acc[key] in place of acc?.[key])
OptChainNoGuard(w, key) ==
    IF w.threw THEN w
    ELSE IF IsNullish(w.acc) THEN [w EXCEPT !.threw = TRUE]
    ELSE [w EXCEPT !.acc = Member(w.h, w.acc, key)]
OptChain(w, key) ==
    IF w.threw THEN w
    ELSE IF IsNullish(w.acc) THEN [w EXCEPT !.acc = Undefined]
    ELSE [w EXCEPT !.acc = Member(w.h, w.acc, key)]

RECURSIVE ReduceGet(_, _)
ReduceGet(w, keys) ==
    IF keys = <<>> THEN w ELSE ReduceGet(OptChain(w, Head(keys)), Tail(keys))

\* getValue(obj, path): [h: the heap after, acc: the value returned, threw]
getValue(h, obj, path) ==
    ReduceGet([h |-> h, acc |-> obj, threw |-> FALSE], Split(path))

\* one step of the reduce in setValue: (acc[key] ??= {})
\* (OrAssignDetached is the step with acc[key] ?? {}, which leaves the new
\* container out of its parent; OrAssignFresh is the step with acc[key] = {},
\* which puts a new container in place of an existing one)
OrAssignFresh(w, key) ==
    IF w.threw THEN w
    ELSE IF ~IsObject(w.acc) THEN [w EXCEPT !.threw = TRUE]
    ELSE [w EXCEPT !.h = Assign(Append(w.h, Obj("Object", EmptyProps)),
                                w.acc.r, key, Ref(Len(w.h) + 1)),
                   !.acc = Ref(Len(w.h) + 1)]
OrAssignDetached(w, key) ==
    IF w.threw THEN w
    ELSE IF IsNullish(w.acc) THEN [w EXCEPT !.threw = TRUE]
    ELSE LET cur == Member(w.h, w.acc, key)
         IN IF ~IsNullish(cur) THEN [w EXCEPT !.acc = cur]
            ELSE IF ~IsObject(w.acc) THEN [w EXCEPT !.threw = TRUE]
            ELSE [w EXCEPT !.h = Append(w.h, Obj("Object", EmptyProps)),
                           !.acc = Ref(Len(w.h) + 1)]
OrAssign(w, key) ==
    IF w.threw THEN w
    ELSE IF IsNullish(w.acc) THEN [w EXCEPT !.threw = TRUE]   \* reading a property of null
    ELSE LET cur == Member(w.h, w.acc, key)
         IN IF ~IsNullish(cur) THEN [w EXCEPT !.acc = cur]
            \* strict mode: creating a property on a primitive is a TypeError
            ELSE IF ~IsObject(w.acc) THEN [w EXCEPT !.threw = TRUE]
            ELSE LET r == Len(w.h) + 1
                 IN [w EXCEPT !.h = Assign(Append(w.h, Obj("Object", EmptyProps)),
                                           w.acc.r, key, Ref(r)),
                              !.acc = Ref(r)]

RECURSIVE ReduceSet(_, _)
ReduceSet(w, keys) ==
    IF keys = <<>> THEN w ELSE ReduceSet(OrAssign(w, Head(keys)), Tail(keys))

\* target[lastKey] = value
AssignLast(w, lastKey, value) ==
    IF w.threw THEN w
    ELSE IF ~IsObject(w.acc) THEN [w EXCEPT !.threw = TRUE]
    ELSE [w EXCEPT !.h = Assign(w.h, w.acc.r, lastKey, value)]

\* setValue(obj, path, value): [h: the heap after, acc: the container written, threw]
setValue(h, obj, path, value) ==
    LET keys == Split(path)
        lastKey == keys[Len(keys)]
        front == SubSeq(keys, 1, Len(keys) - 1)
    IN AssignLast(ReduceSet([h |-> h, acc |-> obj, threw |-> FALSE], front),
                  lastKey, value)


----------------------------------------------------------------------------
(* MetadataStorage: the rule registry *)

\* { source, target }: a MappingOptions value
Mapping(source, target) == [source |-> source, target |-> target]

EmptyMethods == [m \in {} |-> <<>>]

\* this.mappers.has(mapper)
HasMapper(ms, mapper) == \E i \in 1..Len(ms) : ms[i].key = mapper
\* this.mappers.get(mapper), for a mapper the Map has
MetaOf(ms, mapper) == ms[CHOOSE i \in 1..Len(ms) : ms[i].key = mapper]

\* registerMapper without its has() test: this.mappers.set(mapper, { methods: {} })
registerMapperReset(ms, mapper) ==
    IF ~HasMapper(ms, mapper)
    THEN Append(ms, [key |-> mapper, methods |-> EmptyMethods])
    ELSE [i \in 1..Len(ms) |->
             IF ms[i].key = mapper THEN [key |-> mapper, methods |-> EmptyMethods] ELSE ms[i]]

registerMapper(ms, mapper) ==
    IF ~HasMapper(ms, mapper)
    THEN Append(ms, [key |-> mapper, methods |-> EmptyMethods])
    ELSE ms

\* meta.methods is an object literal: a name that is not its own property is
\* looked up on Object.prototype, where it finds a function
Inherited(methods, method) ==
    method \notin DOMAIN methods /\ method \in ObjectProtoNames

\* meta.methods[method].push(option) throws: what is found there is a function
\* of Object.prototype, which is truthy and has no push
registerMappingThrows(ms, mapper, method) ==
    IF HasMapper(ms, mapper) THEN Inherited(MetaOf(ms, mapper).methods, method)
    ELSE method \in ObjectProtoNames

\* registerMapping that assigns a new array each time: meta.methods[method] = [option]
registerMappingReplace(ms, mapper, method, option) ==
    LET ms1 == IF ~HasMapper(ms, mapper) THEN registerMapper(ms, mapper) ELSE ms
        i == CHOOSE j \in 1..Len(ms1) : ms1[j].key = mapper
    IN [ms1 EXCEPT ![i].methods = (method :> <<option>>) @@ @]

\* the registry after registerMapping, whether it returned or threw
registerMapping(ms, mapper, method, option) ==
    LET ms1 == IF ~HasMapper(ms, mapper) THEN registerMapper(ms, mapper) ELSE ms
        i == CHOOSE j \in 1..Len(ms1) : ms1[j].key = mapper
        old == IF method \in DOMAIN ms1[i].methods THEN ms1[i].methods[method] ELSE <<>>
    IN IF Inherited(ms1[i].methods, method) THEN ms1
       ELSE [ms1 EXCEPT ![i].methods = (method :> Append(old, option)) @@ @]

\* getMappings returns no array: methods[method] is an inherited function
getMappingsInherits(ms, mapper, method) ==
    HasMapper(ms, mapper) /\ Inherited(MetaOf(ms, mapper).methods, method)

\* this.mappers.get(mapper)?.methods[method] || []: an array (a sequence here), or
\* the inherited function
getMappings(ms, mapper, method) ==
    IF HasMapper(ms, mapper) /\ method \in DOMAIN MetaOf(ms, mapper).methods
    THEN MetaOf(ms, mapper).methods[method]
    ELSE IF getMappingsInherits(ms, mapper, method) THEN Fn("Object", method)
    ELSE <<>>

\* Array.from(this.mappers.keys())
getAllMappers(ms) == [i \in 1..Len(ms) |-> ms[i].key]

----------------------------------------------------------------------------
(* transform *)

\* the TypeError the engine raises, and the error a throwing constructor throws
TypeError == [t |-> "error", name |-> "TypeError"]
ConstructorError(cls) == [t |-> "error", name |-> "Error", from |-> cls]

\* the classes whose constructor throws (ConstructorNeverThrows: none does)
ConstructorNeverThrows(cls) == FALSE
ConstructorThrows(cls) == cls \in {"BrokenDto", "BrokenMapper"}

\* the fields UserDto of the README declares
ReadmeDtoFields == <<"id", "name", "age", "email", "bio", "avatar">>

\* what `new outputType()` builds, for the target classes used here
Construct(outputType) ==
    CASE outputType = "UserDto" ->
            ObjT("UserDto", << <<"id", ValT(Num(0))>>, <<"name", ValT(Str(""))>> >>)
      [] outputType = "UserEntity" ->
            ObjT("UserEntity", << <<"id", ValT(Undefined)>>, <<"name", ValT(Str(""))>>,
                                  <<"profile", ObjT("Object", << <<"bio", ValT(Str(""))>> >>)>> >>)
      \* UserDto of mapper.spec.ts: the constructor assigns five defaults
      [] outputType = "SpecUserDto" ->
            ObjT("SpecUserDto", << <<"id", ValT(Num(0))>>, <<"name", ValT(Str(""))>>,
                                   <<"email", ValT(Str(""))>>, <<"bio", ValT(Str(""))>>,
                                   <<"avatar", ValT(Str(""))>> >>)
      \* UserEntity of mapper.spec.ts, constructed without data
      [] outputType = "SpecUserEntity" ->
            ObjT("SpecUserEntity",
                 << <<"id", ValT(Num(0))>>, <<"fullName", ValT(Str(""))>>,
                    <<"email", ValT(Str(""))>>,
                    <<"profile", ObjT("Object", << <<"bio", ValT(Str(""))>>,
                                                   <<"avatar", ValT(Str(""))>> >>)>> >>)
      \* UserDto of the README, which declares six fields and no constructor,
      \* compiled with define semantics for class fields: each field is an own
      \* property holding undefined
      [] outputType = "ReadmeUserDtoDefined" ->
            ObjT("ReadmeUserDtoDefined",
                 [n \in 1..Len(ReadmeDtoFields) |-> <<ReadmeDtoFields[n], ValT(Undefined)>>])
      \* the same class compiled without them ("ReadmeUserDto"): a field
      \* declaration emits nothing, as for any class that assigns no field
      [] OTHER -> ObjT(outputType, <<>>)

\* the body of the loop over mappings.  The state of the loop is
\* [h: the heap, used: usedTargetKeys, threw]
\* usedTargetKeys.add(mapping.target), once setValue has returned s
AddUsed(w, mapping, s) ==
    [h |-> s.h,
     used |-> IF s.threw THEN w.used ELSE w.used \cup {mapping.target},
     threw |-> s.threw]
\* setValue(output, mapping.target, value), once getValue has returned g
SetFrom(w, output, mapping, g) ==
    IF g.threw THEN [w EXCEPT !.h = g.h, !.threw = TRUE]
    ELSE AddUsed(w, mapping, setValue(g.h, output, mapping.target, g.acc))
ApplyMapping(w, input, output, mapping) ==
    IF w.threw THEN w
    ELSE SetFrom(w, output, mapping, getValue(w.h, input, mapping.source))

RECURSIVE ApplyMappings(_, _, _, _)
ApplyMappings(w, input, output, mappings) ==
    IF mappings = <<>> THEN w
    ELSE ApplyMappings(ApplyMapping(w, input, output, Head(mappings)),
                       input, output, Tail(mappings))

\* Object.keys(input || {}): the own keys of an object.  A number or a boolean has
\* none; the index keys of a string are names no target here has.
InputKeys(h, input) == IF IsObject(input) THEN DOMAIN h[input.r].props ELSE {}

\* the names of the own properties of output and of its prototype
OutputKeys(h, output) == DOMAIN h[output.r].props \cup ProtoNames(h[output.r].cls)

\* usedTargetKeys.has(key): the key, as a string, is one of the target paths added
UsedTargetKeysHas(used, key) == <<key>> \in used

\* JavaScript truthiness
Truthy(v) ==
    ~(IsNullish(v) \/ v = Num(0) \/ v = Str("") \/ v = Bool(FALSE))

\* variants of the guard: one that also wants a truthy input, one that only
\* wants a defined input
TypeGuardTruthy(inputValue, outputValue) ==
    Truthy(inputValue)
        /\ (outputValue = Undefined \/ TypeOf(inputValue) = TypeOf(outputValue))
TypeGuardDefined(inputValue, outputValue) ==
    outputValue = Undefined \/ inputValue # Undefined

\* outputValue === undefined || inputType === outputTypeGuess
TypeGuard(inputValue, outputValue) ==
    outputValue = Undefined \/ TypeOf(inputValue) = TypeOf(outputValue)

\* an automatic pass without outputKeys.has(key): every key the explicit rules
\* left and the guard lets through
AutoKeysAnyKey(h, used, input, output) ==
    {key \in InputKeys(h, input) :
        /\ ~UsedTargetKeysHas(used, key)
        /\ TypeGuard(Member(h, input, key), Member(h, output, key))}

\* the keys the automatic pass assigns
AutoKeys(h, used, input, output) ==
    {key \in InputKeys(h, input) :
        /\ key \in OutputKeys(h, output)
        /\ ~UsedTargetKeysHas(used, key)
        /\ TypeGuard(Member(h, input, key), Member(h, output, key))}

\* the automatic pass: output[key] = input[key] for each key of auto (each
\* iteration reads and writes its own key of the fresh output only)
AutoMatch(h, auto, input, output) ==
    [h EXCEPT ![output.r].props =
        [k \in DOMAIN @ \cup auto |-> IF k \in auto THEN Member(h, input, k) ELSE @[k]]]

\* the outcome of transform:
\* [h: the heap after, output, mappings, used, auto, threw, error: the error thrown]
\* the second loop and the return, once the first loop has ended in w
AutoPass(w, input, output, mappings) ==
    IF w.threw
    THEN [h |-> w.h, output |-> output, mappings |-> mappings, used |-> w.used,
          auto |-> {}, threw |-> TRUE, error |-> TypeError]
    ELSE [h |-> AutoMatch(w.h, AutoKeys(w.h, w.used, input, output), input, output),
          output |-> output, mappings |-> mappings, used |-> w.used,
          auto |-> AutoKeys(w.h, w.used, input, output), threw |-> FALSE,
          error |-> Undefined]

\* the first loop, over the mappings fetched, on the output b has built
ExplicitPass(b, input, mappings) ==
    AutoPass(ApplyMappings([h |-> b.h, used |-> {}, threw |-> FALSE], input, b.v, mappings),
             input, b.v, mappings)

\* metadataStorage.getMappings(mapper.constructor, method), then the two loops
MapOnto(ms, b, mapper, method, input) ==
    IF \/ IsNullish(mapper)
       \* for (const mapping of mappings) on a function: not iterable
       \/ getMappingsInherits(ms, Member(b.h, mapper, "constructor"), method)
    THEN [h |-> b.h, output |-> b.v, mappings |-> <<>>, used |-> {}, auto |-> {},
          threw |-> TRUE, error |-> TypeError]
    ELSE ExplicitPass(b, input, getMappings(ms, Member(b.h, mapper, "constructor"), method))

\* transform(mapper, method, input, outputType), on registry ms and heap h
transform(ms, h, mapper, method, input, outputType) ==
    IF ConstructorThrows(outputType)        \* new outputType() throws
    THEN [h |-> h, output |-> Undefined, mappings |-> <<>>, used |-> {}, auto |-> {},
          threw |-> TRUE, error |-> ConstructorError(outputType)]
    ELSE MapOnto(ms, Build(h, Construct(outputType)), mapper, method, input)

----------------------------------------------------------------------------
(* The proxy factory: isEmptyOrAbstractMethod *)

\* The text of a method, method.toString(), is a sequence of tokens: the
\* punctuation "{" "}" ";", the comment marks "//" "/*" "*/", the line break NL,
\* "x" for any other punctuation, and words.  Blanks other than line breaks are
\* left out: every place where two tokens meet is a place where the patterns
\* accept \s*.
NL == "NL"
IsWord(tok) == tok \notin {"{", "}", ";", "//", "/*", "*/", NL, "x"}

\* the positions reached from the positions P by \s*
SkipWs(src, P) ==
    {q \in 1..(Len(src) + 1) : \E p \in P : p <= q /\ \A k \in p..(q - 1) : src[k] = NL}

\* the positions reached from P by the token, then \s*
Lit(src, P, tok) ==
    SkipWs(src, {p + 1 : p \in {q \in P : q <= Len(src) /\ src[q] = tok}})

\* the positions reached from P by \w+, then \s*
Word(src, P) ==
    SkipWs(src, {p + 1 : p \in {q \in P : q <= Len(src) /\ IsWord(src[q])}})

\* one (?:\/\/[^\n]*\n\s*)
LineComment(src, P) ==
    SkipWs(src, {q \in 2..(Len(src) + 1) :
                    \E p \in P : /\ p <= Len(src) /\ src[p] = "//"
                                 /\ p < q - 1
                                 /\ src[q - 1] = NL
                                 /\ \A k \in (p + 1)..(q - 2) : src[k] # NL})

\* one (?:\/\*[\s\S]*?\*\/\s*): from a comment opening to any later closing
BlockComment(src, P) ==
    SkipWs(src, {q \in 2..(Len(src) + 1) :
                    \E p \in P : /\ p <= Len(src) /\ src[p] = "/*"
                                 /\ p < q - 1
                                 /\ src[q - 1] = "*/"})

RECURSIVE LineComments(_, _, _)
\* (?:\/\/[^\n]*\n\s*)*
LineComments(src, P, n) ==
    IF n = 0 \/ LineComment(src, P) \subseteq P THEN P
    ELSE LineComments(src, P \cup LineComment(src, P), n - 1)

RECURSIVE BlockComments(_, _, _)
\* (?:\/\*[\s\S]*?\*\/\s*)*
BlockComments(src, P, n) ==
    IF n = 0 \/ BlockComment(src, P) \subseteq P THEN P
    ELSE BlockComments(src, P \cup BlockComment(src, P), n - 1)

\* {\s*(?:\/\/[^\n]*\n\s*)*(?:\/\*[\s\S]*?\*\/\s*)* begun anywhere in the text
AfterOpening(src) ==
    BlockComments(src, LineComments(src, Lit(src, 1..Len(src), "{"), Len(src)), Len(src))

\* return\s*\{\s*\}\s*
ReturnEmptyObject(src, P) == Lit(src, Lit(src, Lit(src, P, "return"), "{"), "}")

\* the three patterns of isEmptyOrAbstractMethod, each tried with RegExp.test
OnlyReturnsEmptyObject(src) ==
    Lit(src, Lit(src, ReturnEmptyObject(src, AfterOpening(src)), ";"), "}") # {}
OnlyReturnsEmptyObjectAsType(src) ==
    Lit(src, Lit(src, Word(src, Lit(src, ReturnEmptyObject(src, AfterOpening(src)), "as")),
                 ";"), "}") # {}
CompletelyEmptyBody(src) ==
    Lit(src, SkipWs(src, AfterOpening(src)), "}") # {}

isEmptyOrAbstractMethod(src) ==
    OnlyReturnsEmptyObject(src) \/ OnlyReturnsEmptyObjectAsType(src)
        \/ CompletelyEmptyBody(src)

----------------------------------------------------------------------------
(* The mapper classes *)

\* what a method does when its own body runs:
\*   "transform": return transform(this, '<name>', arg, ReturnType);
\*   "stub":      return {} as ReturnType;
\*   "validate":  if (!entity.name) { throw new Error('Username cannot be empty'); }
\*                const dto = this.toDto(entity); dto.validated = true; return dto;
\* UserMapper implements its methods with transform; UserAbstractMapper leaves
\* toDto a stub and adds a method of its own; BareMapper is a class whose stub
\* carries no decorator; the constructor of BrokenMapper throws
BodyOf(cls, name) ==
    CASE cls = "UserMapper" -> "transform"
      [] cls = "UserAbstractMapper" /\ name = "toDtoWithValidation" -> "validate"
      [] cls \in {"UserAbstractMapper", "BareMapper", "BrokenMapper"} -> "stub"
      [] OTHER -> "native"

\* the type the method's declaration names as its return type
ReturnTypeOf(cls, name) ==
    CASE name \in {"toDto", "toDtoWithValidation"} -> "UserDto"
      [] name = "toEntity" -> "UserEntity"
      [] OTHER -> "Object"

\* the methods that carry a decorator (@Mapping)
Decorated(cls, name) ==
    cls \in {"UserMapper", "UserAbstractMapper"} /\ name \in {"toDto", "toEntity"}

\* method.toString()
MethodSource(fn) ==
    CASE BodyOf(fn.cls, fn.name) = "transform" ->
            <<fn.name, "x", "entity", "x", "{", NL,
              "return", "transform", "x", "this", "x", "x", fn.name, "x", "x", "entity",
              "x", ReturnTypeOf(fn.cls, fn.name), "x", ";", NL, "}">>
      [] BodyOf(fn.cls, fn.name) = "stub" ->
            <<fn.name, "x", "_entity", "x", "{", NL,
              "//", "Empty", "method", "body", NL,
              "return", "{", "}", "as", ReturnTypeOf(fn.cls, fn.name), ";", NL, "}">>
      [] BodyOf(fn.cls, fn.name) = "validate" ->
            <<fn.name, "x", "entity", "x", "{", NL,
              "if", "x", "x", "entity", "x", "name", "x", "{", NL,
              "throw", "new", "Error", "x", "x", "Username", "cannot", "be", "empty",
              "x", "x", ";", NL, "}", NL,
              "const", "dto", "x", "this", "x", "toDto", "x", "entity", "x", ";", NL,
              "dto", "x", "validated", "x", "true", ";", NL,
              "return", "dto", ";", NL, "}">>
      [] OTHER -> <<"function", fn.name, "x", "x", "{", "x", "native", "code", "x", "}">>

\* the functions found on the prototypes: the methods and the constructors
Functions ==
    UNION {{Fn(cls, name) : name \in ProtoNames(cls)} :
              cls \in {"UserMapper", "UserAbstractMapper", "BareMapper", "BrokenMapper",
                       "Object"}}

\* shouldAutoTransform, for each function the wrapper may be wrapped around: what
\* isEmptyOrAbstractMethod answers on its text
shouldAutoTransform ==
    [fn \in Functions |-> isEmptyOrAbstractMethod(MethodSource(fn))]

\* Reflect.getMetadata('design:returntype', target, methodName): the compiler
\* emits it for a decorated method, and for no other
DesignReturnType(h, target, methodName) ==
    IF Decorated(h[target.r].cls, methodName)
    THEN Fn(ReturnTypeOf(h[target.r].cls, methodName), "constructor")
    ELSE Undefined

----------------------------------------------------------------------------
(* The proxy factory: createMapperProxy *)

Proxy(r) == [t |-> "proxy", r |-> r]

\* new Error(`Unable to get return type for method ${methodName}. ...`)
MissingReturnType(methodName) ==
    [t |-> "error", name |-> "Error", message |-> "Unable to get return type",
     method |-> methodName]
\* new Error(`Auto transform failed (method: ${methodName}): ${error.message}`):
\* a new error, whose message quotes the message of the error caught
AutoTransformFailed(methodName, error) ==
    [t |-> "error", name |-> "Error", message |-> "Auto transform failed",
     method |-> methodName, quotes |-> error]

\* the outcome of a call: [h: the heap after, result, threw, error]
Returned(h, result) == [h |-> h, result |-> result, threw |-> FALSE, error |-> Undefined]
Threw(h, error) == [h |-> h, result |-> Undefined, threw |-> TRUE, error |-> error]

\* what the caller of transform gets once transform has ended in x
TransformOutcome(x) ==
    IF x.threw THEN Threw(x.h, x.error) ELSE Returned(x.h, x.output)

\* catch (error) { throw new Error(`Auto transform failed ...`) } around y
Rethrown(y, methodName) ==
    IF y.threw THEN Threw(y.h, AutoTransformFailed(methodName, y.error)) ELSE y

\* executeAutoTransform without its `if (!returnType)`: new undefined() throws
executeAutoTransformUnchecked(ms, h, target, methodName, input) ==
    IF ~Truthy(DesignReturnType(h, target, methodName))
    THEN Rethrown(Threw(h, TypeError), methodName)
    ELSE Rethrown(TransformOutcome(transform(ms, h, target, methodName, input,
                                             DesignReturnType(h, target, methodName).cls)),
                  methodName)

executeAutoTransform(ms, h, target, methodName, input) ==
    IF ~Truthy(DesignReturnType(h, target, methodName))     \* if (!returnType)
    THEN Rethrown(Threw(h, MissingReturnType(methodName)), methodName)
    ELSE Rethrown(TransformOutcome(transform(ms, h, target, methodName, input,
                                             DesignReturnType(h, target, methodName).cls)),
                  methodName)

\* args[args.length - 1]
LastArg(args) == IF args = <<>> THEN Undefined ELSE args[Len(args)]

\* args[0]
FirstArg(args) == IF args = <<>> THEN Undefined ELSE args[1]

\* new Error('Username cannot be empty')
UsernameEmpty == [t |-> "error", name |-> "Error", message |-> "Username cannot be empty"]

\* dto.validated = true; return dto; once this.toDto(entity) has ended in y
Validated(y) ==
    IF y.threw THEN y
    ELSE IF ~IsObject(y.result) THEN Threw(y.h, TypeError)
    ELSE Returned(Assign(y.h, y.result.r, "validated", Bool(TRUE)), y.result)

RECURSIVE Invoke(_, _, _, _, _)

\* original.apply(thisArg, args): the method's own body runs
Apply(ms, h, original, thisArg, args) ==
    CASE BodyOf(original.cls, original.name) = "transform" ->
            TransformOutcome(transform(ms, h, thisArg, original.name, FirstArg(args),
                                       ReturnTypeOf(original.cls, original.name)))
      [] BodyOf(original.cls, original.name) = "stub" ->
            Returned(Append(h, Obj("Object", EmptyProps)), Ref(Len(h) + 1))
      [] BodyOf(original.cls, original.name) = "validate" ->
            IF IsNullish(FirstArg(args)) THEN Threw(h, TypeError)   \* entity.name
            ELSE IF ~Truthy(Member(h, FirstArg(args), "name")) THEN Threw(h, UsernameEmpty)
            ELSE Validated(Invoke(ms, h, Member(h, thisArg, "toDto"), thisArg,
                                  <<FirstArg(args)>>))
      [] OTHER -> Returned(h, Undefined)

\* createMapperProxy(MapperClass): [h: the heap after, result: the proxy, threw, error]
createMapperProxy(h, cls) ==
    IF ConstructorThrows(cls)       \* new MapperClass() throws
    THEN Threw(h, ConstructorError(cls))
    ELSE Returned(Append(h, Obj(cls, EmptyProps)), Proxy(Len(h) + 1))

\* a wrapper that applies the original to the proxy's target: original.apply(target, args)
InvokeOnTarget(ms, h, fn, thisArg, args) ==
    IF "wraps" \in DOMAIN fn
    THEN IF shouldAutoTransform[fn.wraps]
         THEN executeAutoTransform(ms, h, Ref(fn.target), fn.wraps.name, FirstArg(args))
         ELSE Apply(ms, h, fn.wraps, Ref(fn.target), args)
    ELSE Apply(ms, h, fn, thisArg, args)

\* a wrapper that catches what the original throws and throws a new error
InvokeWrapping(ms, h, fn, thisArg, args) ==
    IF "wraps" \in DOMAIN fn
    THEN IF shouldAutoTransform[fn.wraps]
         THEN executeAutoTransform(ms, h, Ref(fn.target), fn.wraps.name, FirstArg(args))
         ELSE Rethrown(Apply(ms, h, fn.wraps, thisArg, args), fn.wraps.name)
    ELSE Apply(ms, h, fn, thisArg, args)

\* calling the function fn with `this` and the arguments: a function the get trap
\* returned classifies the original and dispatches, any other function runs
Invoke(ms, h, fn, thisArg, args) ==
    IF "wraps" \in DOMAIN fn
    THEN IF shouldAutoTransform[fn.wraps]
         THEN executeAutoTransform(ms, h, Ref(fn.target), fn.wraps.name, FirstArg(args))
         ELSE Apply(ms, h, fn.wraps, thisArg, args)
    ELSE Apply(ms, h, fn, thisArg, args)

----------------------------------------------------------------------------
(* The path accessor on its own: getValue and setValue called on an object *)

Absent == [kind |-> "absent"]
Field(key, tm) == IF tm = Absent THEN <<>> ELSE << <<key, tm>> >>

\* the objects the accessor is tried on: { a: { b: { c: 0 } } } and its variants
\* with an intermediate absent, null or a primitive
LeafC == {Absent, ValT(Num(0))}
NodeB == {Absent, ValT(Null), ValT(Str("s"))}
            \cup {ObjT("Object", Field("c", z)) : z \in LeafC}
NodeA == {Absent, ValT(Null), ValT(Num(1))}
            \cup {ObjT("Object", Field("b", y)) : y \in NodeB}
PathObjects == {ObjT("Object", Field("a", x)) : x \in NodeA}

\* 'a', 'a.b', 'a.d', 'a.b.c', and the malformed '' and 'a.'
PathStrings == {<<"a">>, <<"a", Dot, "b">>, <<"a", Dot, "d">>,
                <<"a", Dot, "b", Dot, "c">>, <<>>, <<"a", Dot>>}
PathValues == {Undefined, Num(0), Str("v")}

InitPath ==
    /\ mappers = <<>>
    /\ instances = <<>>
    /\ calls = <<>>
    /\ \E tm \in PathObjects : heap = Build(<<>>, tm).h

\* a call ends: the heap it leaves and its record
CallEnds(h, record) ==
    /\ heap' = h
    /\ calls' = Append(calls, record)

GetValueReturns(obj, path, g) ==
    CallEnds(g.h, [op |-> "getValue", obj |-> obj, path |-> path, pre |-> heap,
                   threw |-> g.threw, result |-> IF g.threw THEN Undefined ELSE g.acc])

GetValueCall(obj, path) ==
    /\ Len(calls) < MaxCalls
    /\ GetValueReturns(obj, path, getValue(heap, obj, path))
    /\ UNCHANGED <<mappers, instances>>

SetValueReturns(obj, path, value, s) ==
    CallEnds(s.h, [op |-> "setValue", obj |-> obj, path |-> path, value |-> value,
                   pre |-> heap, threw |-> s.threw])

SetValueCall(obj, path, value) ==
    /\ Len(calls) < MaxCalls
    /\ SetValueReturns(obj, path, value, setValue(heap, obj, path, value))
    /\ UNCHANGED <<mappers, instances>>

NextPath ==
    \/ \E obj \in {Ref(1), Null, Undefined}, path \in PathStrings : GetValueCall(obj, path)
    \/ \E path \in PathStrings, value \in PathValues : SetValueCall(Ref(1), path, value)

SpecPath == InitPath /\ [][NextPath]_vars


----------------------------------------------------------------------------
(* The classifier on its own: isEmptyOrAbstractMethod applied to the text of a
   method whose body is a sequence of statements and comments *)

\* the text of one statement or comment, each on a line of its own
Statement(item) ==
    CASE item = "ret" -> <<"return", "{", "}", ";", NL>>                 \* return {};
      [] item = "retAs" -> <<"return", "{", "}", "as", "UserDto", ";", NL>>
                                                                       \* return {} as UserDto;
      [] item = "line" -> <<"//", "note", NL>>                          \* // note
      [] item = "block" -> <<"/*", "note", "*/", NL>>                   \* /* note */
      [] item = "call" -> <<"const", "dto", "x", "this", "x", "toDto", "x", "entity",
                            "x", ";", NL>>               \* const dto = this.toDto(entity);
      [] item = "assign" -> <<"dto", "x", "extra", "x", "1", ";", NL>>  \* dto.extra = 1;
      [] item = "retDto" -> <<"return", "dto", ";", NL>>                \* return dto;
      [] item = "ifRet" -> <<"if", "x", "a", "x", "{", "return", "{", "}", ";", "}", NL>>
                                                                       \* if (a) { return {}; }
      [] item = "objLit" -> <<"const", "dto", "x", "{", "}", ";", NL>>  \* const dto = {};
      [] item = "emptyBlock" -> <<"if", "x", "a", "x", "{", "}", NL>>   \* if (a) {}

Comments == {"line", "block"}
Statements == {"ret", "retAs", "call", "assign", "retDto", "ifRet", "objLit", "emptyBlock"}

RECURSIVE BodyText(_)
BodyText(body) ==
    IF body = <<>> THEN <<>> ELSE Statement(Head(body)) \o BodyText(Tail(body))

\* method.toString() of a method with the body given
TextOf(body) == <<"toDto", "x", "entity", "x", "{", NL>> \o BodyText(body) \o <<"}">>

Bodies == UNION {[1..n -> Comments \cup Statements] : n \in 0..MaxStatements}

InitClassify ==
    /\ mappers = <<>>
    /\ heap = <<>>
    /\ instances = <<>>
    /\ calls = <<>>

\* the get trap's wrapper classifies the method it wraps
Classify(body) ==
    /\ calls = <<>>
    /\ calls' = <<[op |-> "classify", body |-> body, pre |-> heap,
                   result |-> isEmptyOrAbstractMethod(TextOf(body))]>>
    /\ UNCHANGED <<mappers, heap, instances>>

NextClassify == \E body \in Bodies : Classify(body)

SpecClassify == InitClassify /\ [][NextClassify]_vars


----------------------------------------------------------------------------
(* The registry and transform: rules are registered, then a mapper instance
   maps a source object to a target type *)

\* the Mapper decorator on class cls
RegisterMapper(cls) ==
    /\ mappers' = registerMapper(mappers, Fn(cls, "constructor"))
    /\ mappers' # mappers
    /\ UNCHANGED <<heap, instances, calls>>

\* the registry's size: the number of rules it holds
RECURSIVE CountMappings(_)
CountMappings(ms) ==
    IF ms = <<>> THEN 0
    ELSE LET RECURSIVE Sum(_)
             Sum(names) == IF names = {} THEN 0
                           ELSE LET n == CHOOSE x \in names : TRUE
                                IN Len(ms[1].methods[n]) + Sum(names \ {n})
         IN Sum(DOMAIN ms[1].methods) + CountMappings(Tail(ms))

\* the Mapping decorator on method `method` of class cls
RegisterMapping(cls, method, option) ==
    /\ CountMappings(mappers) < MaxMappings
    /\ calls = <<>>     \* decorators run when the class is defined, before any call
    /\ mappers' = registerMapping(mappers, Fn(cls, "constructor"), method, option)
    /\ UNCHANGED <<heap, instances, calls>>

TransformReturns(mapper, method, input, outputType, x) ==
    CallEnds(x.h, [op |-> "transform", mapper |-> mapper, method |-> method,
                   input |-> input, outputType |-> outputType, mappings |-> x.mappings,
                   pre |-> heap, output |-> x.output, used |-> x.used, auto |-> x.auto,
                   threw |-> x.threw, error |-> x.error])

TransformCall(mapper, method, input, outputType) ==
    /\ Len(calls) < MaxCalls
    /\ TransformReturns(mapper, method, input, outputType,
                        transform(mappers, heap, mapper, method, input, outputType))
    /\ UNCHANGED <<mappers, instances>>

\* the sources: { id, name, profile: { bio } } with falsy values, a profile that is
\* absent or null, or no object at all
SourceObjects ==
    {ObjT("UserEntity", Field("id", s[1]) \o Field("name", s[2]) \o Field("profile", p)) :
        s \in {<<ValT(Num(0)), ValT(Str(""))>>, <<ValT(Bool(FALSE)), ValT(Str("n"))>>},
        p \in {Absent, ValT(Null), ObjT("Object", << <<"bio", ValT(Str("x"))>> >>)}}

\* the rules registered: profile.bio -> name, name -> name, name -> profile.bio,
\* meta.bio -> profile.bio (no source has a meta), profile -> profile,
\* id -> name.bio (both target types construct name as a string)
MappingUniverse ==
    {Mapping(<<"profile", Dot, "bio">>, <<"name">>),
     Mapping(<<"id">>, <<"name", Dot, "bio">>),
     Mapping(<<"name">>, <<"name">>),
     Mapping(<<"name">>, <<"profile", Dot, "bio">>),
     Mapping(<<"meta", Dot, "bio">>, <<"profile", Dot, "bio">>),
     Mapping(<<"profile">>, <<"profile">>)}

OutputTypes == {"UserDto", "UserEntity"}

\* the mapper instance is object 1; the source, when it is an object, is object 2;
\* otherwise the source is null, undefined or a number
Inputs(h) == IF Len(h) >= 2 THEN {Ref(2)} ELSE {Null, Undefined, Num(5)}

InitTransform ==
    /\ mappers = <<>>
    /\ calls = <<>>
    /\ instances = <<Ref(1)>>
    /\ \E tm \in SourceObjects \cup {Absent} :
          heap = IF tm = Absent THEN <<Obj("UserMapper", EmptyProps)>>
                 ELSE Build(<<Obj("UserMapper", EmptyProps)>>, tm).h

NextTransform ==
    \/ calls = <<>> /\ RegisterMapper("UserMapper")
    \/ \E option \in MappingUniverse : RegisterMapping("UserMapper", "toDto", option)
    \/ \E input \in Inputs(heap), outputType \in OutputTypes :
          TransformCall(instances[1], "toDto", input, outputType)

SpecTransform == InitTransform /\ [][NextTransform]_vars


----------------------------------------------------------------------------
(* The documented example: UserMapper with its three toDto rules and the
   mirrored toEntity rules maps an entity to a DTO and the DTO back *)

\* the Mapping decorators of a method run from the last written to the first
ToDtoRules ==
    <<Mapping(<<"profile", Dot, "avatar">>, <<"avatar">>),
      Mapping(<<"profile", Dot, "bio">>, <<"bio">>),
      Mapping(<<"fullName">>, <<"name">>)>>
ToEntityRules ==
    <<Mapping(<<"avatar">>, <<"profile", Dot, "avatar">>),
      Mapping(<<"bio">>, <<"profile", Dot, "bio">>),
      Mapping(<<"name">>, <<"fullName">>)>>

RECURSIVE RegisterAll(_, _, _, _)
RegisterAll(ms, mapper, method, options) ==
    IF options = <<>> THEN ms
    ELSE RegisterAll(registerMapping(ms, mapper, method, Head(options)),
                     mapper, method, Tail(options))

\* the registry once class UserMapper has been defined: the method decorators,
\* then the class decorator
ExampleRegistry ==
    registerMapper(
        RegisterAll(RegisterAll(<<>>, Fn("UserMapper", "constructor"), "toDto", ToDtoRules),
                    Fn("UserMapper", "constructor"), "toEntity", ToEntityRules),
        Fn("UserMapper", "constructor"))

\* the entities: an instance of UserEntity of mapper.spec.ts, or, with an age,
\* the object literal of the README; id may be a string, fullName null, and the
\* profile null
Entities ==
    {ObjT(IF age = Absent THEN "SpecUserEntity" ELSE "Object",
          Field("id", id) \o Field("fullName", fullName) \o Field("age", age)
              \o Field("email", email) \o Field("profile", profile)) :
        id \in {ValT(Num(1)), ValT(Num(0)), ValT(Str("1"))},
        fullName \in {ValT(Str("John Doe")), ValT(Null)},
        age \in {Absent, ValT(Num(30))},
        email \in {ValT(Str("john@example.com")), ValT(Str(""))},
        profile \in {ValT(Null),
                     ObjT("Object", << <<"bio", ValT(Str("Software Developer"))>>,
                                       <<"avatar", ValT(Str("avatar.jpg"))>> >>),
                     ObjT("Object", << <<"bio", ValT(Str(""))>>,
                                       <<"avatar", ValT(Str("avatar.jpg"))>> >>)}}

\* the DTO classes: UserDto of mapper.spec.ts and UserDto of the README, as
\* either setting of the compiler emits it
DtoTypes == {"SpecUserDto", "ReadmeUserDto", "ReadmeUserDtoDefined"}

\* the mapper is object 1 and the entity object 2
InitExample ==
    /\ mappers = ExampleRegistry
    /\ calls = <<>>
    /\ instances = <<Ref(1)>>
    /\ \E tm \in Entities : heap = Build(<<Obj("UserMapper", EmptyProps)>>, tm).h

\* userMapper.toDto(entity), whose body is transform(this, 'toDto', entity, UserDto)
ToDto(outputType) ==
    /\ calls = <<>>
    /\ TransformCall(instances[1], "toDto", Ref(2), outputType)

\* userMapper.toEntity(dto) on the DTO the first call returned
ToEntity ==
    /\ Len(calls) = 1
    /\ ~calls[1].threw
    /\ TransformCall(instances[1], "toEntity", calls[1].output, "SpecUserEntity")

NextExample ==
    \/ \E outputType \in DtoTypes : ToDto(outputType)
    \/ ToEntity

SpecExample == InitExample /\ [][NextExample]_vars


----------------------------------------------------------------------------
(* The registry on its own: the four operations of metadataStorage called in
   any order.  Each call is recorded with the registry it found. *)

RegistryClasses == {"UserMapper", "UserAbstractMapper"}

\* the method names: two methods of the mappers, and a name Object.prototype has
RegistryMethods == {"toDto", "toEntity", "toString"}

\* name -> name and profile.bio -> name
RegistryRules == {Mapping(<<"name">>, <<"name">>), Mapping(<<"profile", Dot, "bio">>, <<"name">>)}

\* object 1 is a UserMapper, object 2 a UserAbstractMapper, object 3 the source
\* { id: 7, name: 'n', profile: { bio: 'x' } }
InitRegistry ==
    /\ mappers = <<>>
    /\ calls = <<>>
    /\ instances = <<Ref(1), Ref(2)>>
    /\ heap = Build(<<Obj("UserMapper", EmptyProps), Obj("UserAbstractMapper", EmptyProps)>>,
                    ObjT("UserEntity", << <<"id", ValT(Num(7))>>, <<"name", ValT(Str("n"))>>,
                         <<"profile", ObjT("Object", << <<"bio", ValT(Str("x"))>> >>)>> >>)).h

\* a call on the registry ends: the registry it leaves and its record
StorageCallEnds(ms, record) ==
    /\ Len(calls) < MaxOps
    /\ mappers' = ms
    /\ calls' = Append(calls, record)
    /\ UNCHANGED <<heap, instances>>

\* metadataStorage.registerMapper(cls)
RegisterMapperCall(cls) ==
    StorageCallEnds(registerMapper(mappers, Fn(cls, "constructor")),
                    [op |-> "registerMapper", mapper |-> cls, pre |-> heap,
                     registry |-> mappers, threw |-> FALSE])

\* metadataStorage.registerMapping(cls, method, option)
RegisterMappingCall(cls, method, option) ==
    StorageCallEnds(registerMapping(mappers, Fn(cls, "constructor"), method, option),
                    [op |-> "registerMapping", mapper |-> cls, method |-> method,
                     option |-> option, pre |-> heap, registry |-> mappers,
                     threw |-> registerMappingThrows(mappers, Fn(cls, "constructor"), method)])

\* metadataStorage.getMappings(cls, method)
GetMappingsCall(cls, method) ==
    StorageCallEnds(mappers,
                    [op |-> "getMappings", mapper |-> cls, method |-> method, pre |-> heap,
                     registry |-> mappers, threw |-> FALSE,
                     isArray |-> ~getMappingsInherits(mappers, Fn(cls, "constructor"), method),
                     result |-> getMappings(mappers, Fn(cls, "constructor"), method)])

\* metadataStorage.getAllMappers()
GetAllMappersCall ==
    StorageCallEnds(mappers,
                    [op |-> "getAllMappers", pre |-> heap, registry |-> mappers,
                     threw |-> FALSE, result |-> getAllMappers(mappers)])

NextRegistry ==
    \/ \E cls \in RegistryClasses : RegisterMapperCall(cls)
    \/ \E cls \in RegistryClasses, method \in RegistryMethods, option \in RegistryRules :
          RegisterMappingCall(cls, method, option)
    \/ \E cls \in RegistryClasses, method \in RegistryMethods : GetMappingsCall(cls, method)
    \/ GetAllMappersCall

SpecRegistry == InitRegistry /\ [][NextRegistry]_vars


----------------------------------------------------------------------------
(* Properties: the path accessor *)

Calls(op) == {i \in 1..Len(calls) : calls[i].op = op}

\* the value found by following the first n segments of path from obj
ValueAt(h, obj, path, n) ==
    ReduceGet([h |-> h, acc |-> obj, threw |-> FALSE], SubSeq(Split(path), 1, n)).acc

\* every segment of the path is non-empty
WellFormed(path) == \A n \in 1..Len(Split(path)) : Split(path)[n] # ""

\* every intermediate along the path is absent, null, undefined or an object
IntermediatesAreObjects(h, obj, path) ==
    \A n \in 1..(Len(Split(path)) - 1) :
        IsNullish(ValueAt(h, obj, path, n)) \/ ValueAt(h, obj, path, n).t = "ref"

\* C9 (nested round-trip): after setValue(obj, p, v) on an object, for a path of
\* non-empty segments whose intermediates were absent, null or objects,
\* setValue has not thrown and getValue(obj, p) returns v.
C9_NestedRoundTrip ==
    \A i \in Calls("setValue") :
        LET c == calls[i]
        IN (c.obj.t = "ref" /\ WellFormed(c.path)
                /\ IntermediatesAreObjects(c.pre, c.obj, c.path))
           => /\ ~c.threw
              /\ ~getValue(PostOf(i), c.obj, c.path).threw
              /\ getValue(PostOf(i), c.obj, c.path).acc = c.value

\* setValue('a.b.c', 'v') has created the containers below a null intermediate
C9_Witness ==
    \E i \in Calls("setValue") :
        LET c == calls[i]
        IN /\ c.path = <<"a", Dot, "b", Dot, "c">>
           /\ c.value = Str("v")
           /\ ValueAt(c.pre, c.obj, c.path, 1) = Null
           /\ ~c.threw
           /\ Len(PostOf(i)) = Len(c.pre) + 2
           /\ getValue(PostOf(i), c.obj, c.path).acc = Str("v")

\* C10 (getValue is safe and read-only): getValue never throws, leaves the heap
\* as it was, and returns undefined whenever the object or an intermediate value
\* along the path is null or undefined.
C10_GetValueSafe ==
    \A i \in Calls("getValue") :
        LET c == calls[i]
        IN /\ ~c.threw
           /\ PostOf(i) = c.pre
           /\ (\E n \in 0..(Len(Split(c.path)) - 1) : IsNullish(ValueAt(c.pre, c.obj, c.path, n)))
                 => c.result = Undefined

\* getValue({ a: null }, 'a.b') has returned undefined
C10_Witness ==
    \E i \in Calls("getValue") :
        LET c == calls[i]
        IN /\ c.obj = Ref(1)
           /\ c.path = <<"a", Dot, "b">>
           /\ ReflectGet(c.pre, 1, "a") = Null
           /\ ~c.threw
           /\ c.result = Undefined

\* setValue may write key of object r: r is the container reached after some
\* segments of the path and key is the next segment, which is the last one or
\* one under which nothing (or null) was found
MayWrite(h, obj, path, r, key) ==
    \E n \in 0..(Len(Split(path)) - 1) :
        /\ ValueAt(h, obj, path, n) = Ref(r)
        /\ Split(path)[n + 1] = key
        /\ n + 1 = Len(Split(path)) \/ IsNullish(ReflectGet(h, r, key))

----------------------------------------------------------------------------
(* Properties: transform *)

\* the first segment of a path
FirstSegment(path) == Split(path)[1]

\* one of the two paths is a prefix of the other (or they are the same path)
Overlap(p, q) ==
    LET a == Split(p)
        b == Split(q)
    IN \/ (Len(a) <= Len(b) /\ SubSeq(b, 1, Len(a)) = a)
       \/ (Len(b) <= Len(a) /\ SubSeq(a, 1, Len(b)) = b)

\* no two rules of the list write the same path or one below the other
NonConflicting(mappings) ==
    \A k, l \in 1..Len(mappings) : k # l => ~Overlap(mappings[k].target, mappings[l].target)

\* some rule of the list has a target path that starts with the key
HasExplicitRule(mappings, key) ==
    \E k \in 1..Len(mappings) : FirstSegment(mappings[k].target) = key

\* the value read from h at the path, as getValue reads it
Read(h, obj, path) == getValue(h, obj, path).acc

\* the target of the call as its constructor left it, before any rule ran
Constructed(c) == Build(c.pre, Construct(c.outputType)).h

\* C2 (explicit-rule completeness): in the instance returned by transform, for a
\* rule list whose target paths do not conflict, every rule's target path holds
\* the value of the rule's source path in the source.
C2_ExplicitRuleCompleteness ==
    \A i \in Calls("transform") :
        LET c == calls[i]
        IN (~c.threw /\ NonConflicting(c.mappings))
           => \A k \in 1..Len(c.mappings) :
                 Read(PostOf(i), c.output, c.mappings[k].target)
                    = Read(c.pre, c.input, c.mappings[k].source)

\* C3: the automatic pass never assigns a top-level key that is the first segment
\* of the target path of an explicit rule applied in the same call.
C3_AutoSkipsExplicitTargets ==
    \A i \in Calls("transform") :
        \A key \in calls[i].auto : ~HasExplicitRule(calls[i].mappings, key)

\* the source path does not resolve: the source or an intermediate is null or undefined
Unresolved(h, obj, path) ==
    \E n \in 0..(Len(Split(path)) - 1) : IsNullish(ValueAt(h, obj, path, n))

\* C4 (silent miss): when the source path of a rule does not resolve, transform
\* does not throw and the rule's target path (which no other rule writes) holds
\* undefined in the result.
C4_SilentMiss ==
    \A i \in Calls("transform") :
        LET c == calls[i]
        IN \A k \in 1..Len(c.mappings) :
              (/\ Unresolved(c.pre, c.input, c.mappings[k].source)
               /\ \A l \in 1..Len(c.mappings) :
                     l # k => ~Overlap(c.mappings[l].target, c.mappings[k].target))
              => /\ ~c.threw
                 /\ Read(PostOf(i), c.output, c.mappings[k].target) = Undefined

\* C5 (rule collision): when two rules have the same target path, and no rule
\* writes above or below that path, the result holds at that path the source
\* value of the rule registered last, and transform does not throw.
C5_LastRegisteredWins ==
    \A i \in Calls("transform") :
        LET c == calls[i]
        IN \A k, l \in 1..Len(c.mappings) :
              (/\ k < l
               /\ c.mappings[k].target = c.mappings[l].target
               /\ \A n \in 1..Len(c.mappings) :
                     \/ (c.mappings[n].target = c.mappings[l].target /\ n <= l)
                     \/ ~Overlap(c.mappings[n].target, c.mappings[l].target))
              => /\ ~c.threw
                 /\ Read(PostOf(i), c.output, c.mappings[l].target)
                       = Read(c.pre, c.input, c.mappings[l].source)

\* C6: automatic matching copies by presence and type.  For every own key k of the
\* source that no explicit rule consumes, if the target has a property k and the
\* target's value at k is undefined or of the same typeof as the source's, the
\* result's k is the source's value (the same reference for an object).
C6_AutoMatchByPresenceAndType ==
    \A i \in Calls("transform") :
        LET c == calls[i]
        IN ~c.threw =>
           \A key \in InputKeys(c.pre, c.input) :
              (/\ ~HasExplicitRule(c.mappings, key)
               /\ key \in OutputKeys(Constructed(c), c.output)
               /\ \/ Member(Constructed(c), c.output, key) = Undefined
                  \/ TypeOf(Member(Constructed(c), c.output, key))
                        = TypeOf(Member(c.pre, c.input, key)))
              => Member(PostOf(i), c.output, key) = Member(c.pre, c.input, key)

\* a source whose id is 0 and name is '' has been mapped onto a UserEntity, whose
\* id starts undefined and whose name starts as a string: both falsy values arrived
C6_Witness ==
    \E i \in Calls("transform") :
        LET c == calls[i]
        IN /\ ~c.threw
           /\ c.outputType = "UserEntity"
           /\ c.mappings # <<>>
           /\ IsObject(c.input)
           /\ ~HasExplicitRule(c.mappings, "name")
           /\ Member(c.pre, c.input, "id") = Num(0)
           /\ Member(c.pre, c.input, "name") = Str("")
           /\ Member(Constructed(c), c.output, "id") = Undefined
           /\ Member(PostOf(i), c.output, "id") = Num(0)
           /\ Member(PostOf(i), c.output, "name") = Str("")

\* C7 (type-guard skip): for every source key k with no explicit rule, if the
\* target's value at k after construction is not undefined and its typeof differs
\* from that of the source's k, the result's k is the target's default.
C7_TypeGuardSkip ==
    \A i \in Calls("transform") :
        LET c == calls[i]
        IN ~c.threw =>
           \A key \in InputKeys(c.pre, c.input) :
              (/\ ~HasExplicitRule(c.mappings, key)
               /\ Member(Constructed(c), c.output, key) # Undefined
               /\ TypeOf(Member(Constructed(c), c.output, key))
                     # TypeOf(Member(c.pre, c.input, key)))
              => Member(PostOf(i), c.output, key) = Member(Constructed(c), c.output, key)

\* a source whose id is the boolean false has been mapped onto a UserDto, whose id
\* defaults to the number 0: the default is still there
C7_Witness ==
    \E i \in Calls("transform") :
        LET c == calls[i]
        IN /\ ~c.threw
           /\ c.outputType = "UserDto"
           /\ IsObject(c.input)
           /\ Member(c.pre, c.input, "id") = Bool(FALSE)
           /\ Member(PostOf(i), c.output, "id") = Num(0)

\* C12 (totality after construction): transform, given a mapper instance, any
\* source (object, null, undefined or primitive), any registered rule list and a
\* target type that constructs, returns and does not throw.
C12_TransformTotal ==
    \A i \in Calls("transform") : ~calls[i].threw

\* C29 (automatic matching never adds a key): every top-level key of the result
\* is a property the target had after construction, its own or its
\* prototype's, or the first segment of the target path of an explicit rule; a
\* source key without such a counterpart is not in the result.
C29_AutoAddsNoKey ==
    \A i \in Calls("transform") :
        ~calls[i].threw =>
            \A key \in DOMAIN PostOf(i)[calls[i].output.r].props :
                \/ key \in OutputKeys(Constructed(calls[i]), calls[i].output)
                \/ HasExplicitRule(calls[i].mappings, key)

\* a source with a profile object has been mapped onto a UserDto, which has no
\* profile, under rules that do not write profile: id was copied and the result
\* has no profile
C29_Witness ==
    \E i \in Calls("transform") :
        LET c == calls[i]
        IN /\ ~c.threw
           /\ c.outputType = "UserDto"
           /\ c.mappings # <<>>
           /\ IsObject(c.input)
           /\ IsObject(Member(c.pre, c.input, "profile"))
           /\ "id" \in c.auto
           /\ ~HasOwn(PostOf(i), c.output.r, "profile")

\* the objects reachable from the value v in heap h, through at most depth
\* properties
RECURSIVE ReachableFrom(_, _, _)
ReachableFrom(h, v, depth) ==
    IF v.t # "ref" THEN {}
    ELSE IF depth = 0 THEN {v.r}
    ELSE {v.r} \cup UNION {ReachableFrom(h, h[v.r].props[key], depth - 1) :
                              key \in DOMAIN h[v.r].props}

\* C26 (transform never mutates its source): after transform has returned,
\* every object reachable from the source has the properties, with the values,
\* it had before the call, whatever the registered rules are.
C26_SourceUnchanged ==
    \A i \in Calls("transform") :
        ~calls[i].threw =>
            \A r \in ReachableFrom(calls[i].pre, calls[i].input, MaxDepth) :
                PostOf(i)[r] = calls[i].pre[r]

RECURSIVE DeepEqual(_, _, _, _, _)
\* deep value equality of v in heap h and w in heap g, unfolded to the given depth
DeepEqual(h, v, g, w, depth) ==
    IF v.t = "ref" /\ w.t = "ref"
    THEN /\ h[v.r].cls = g[w.r].cls
         /\ DOMAIN h[v.r].props = DOMAIN g[w.r].props
         /\ depth > 0 =>
               \A key \in DOMAIN h[v.r].props :
                   DeepEqual(h, h[v.r].props[key], g, g[w.r].props[key], depth - 1)
    ELSE v = w

\* C8 (idempotence and freshness): two transform calls with the same mapper,
\* method, source and target type under the same rules return two distinct
\* objects, each allocated by its own call, that are deep-equal.
C8_Idempotence ==
    \A i, j \in Calls("transform") :
        LET c == calls[i]
            d == calls[j]
        IN (/\ i < j
            /\ ~c.threw /\ ~d.threw
            /\ c.mapper = d.mapper /\ c.method = d.method
            /\ c.input = d.input /\ c.outputType = d.outputType
            /\ c.mappings = d.mappings)
           => /\ c.output # d.output
              /\ c.output.r > Len(c.pre)
              /\ d.output.r > Len(d.pre)
              /\ DeepEqual(heap, c.output, heap, d.output, MaxDepth)


----------------------------------------------------------------------------
(* Mappers behind the proxy: a class is decorated, instances are made with
   createMapperProxy or with new, and their methods are called *)

\* the caller keeps what the creation returned, or the error it threw
InstanceMade(y) ==
    /\ heap' = y.h
    /\ instances' = Append(instances, IF y.threw THEN y.error ELSE y.result)

\* the mapper instances made so far, proxied or plain
Made == SelectSeq(instances, IsObject)

\* createMapperProxy(MapperClass): a new instance, wrapped; a class whose
\* constructor throws is tried before any instance is made
CreateMapperProxy(cls) ==
    /\ Len(Made) < MaxInstances
    /\ ConstructorThrows(cls) => instances = <<>>
    /\ calls = <<>>
    /\ InstanceMade(createMapperProxy(heap, cls))
    /\ UNCHANGED <<mappers, calls>>

\* new MapperClass()
NewMapper(cls) ==
    /\ Len(Made) < MaxInstances
    /\ calls = <<>>
    /\ heap' = Append(heap, Obj(cls, EmptyProps))
    /\ instances' = Append(instances, Ref(Len(heap) + 1))
    /\ UNCHANGED <<mappers, calls>>

MethodReturns(receiver, method, args, y) ==
    CallEnds(y.h, [op |-> "method", receiver |-> receiver, method |-> method,
                   args |-> args, pre |-> heap, result |-> y.result, threw |-> y.threw,
                   error |-> y.error])

\* receiver.method(...args)
MethodCall(receiver, method, args) ==
    /\ Len(calls) < MaxCalls
    /\ TypeOf(Member(heap, receiver, method)) = "function"
    /\ MethodReturns(receiver, method, args,
                     Invoke(mappers, heap, Member(heap, receiver, method), receiver, args))
    /\ UNCHANGED <<mappers, instances>>

\* the sources: { id: 7, name: 'n', profile: { bio: 'x' } } and
\* { id: 7, name: '', profile: null }
ProxySources ==
    {ObjT("UserEntity", Field("id", ValT(Num(7))) \o Field("name", s[1])
                            \o Field("profile", s[2])) :
        s \in {<<ValT(Str("n")), ObjT("Object", << <<"bio", ValT(Str("x"))>> >>)>>,
               <<ValT(Str("")), ValT(Null)>>}}

\* the @Mapping decorators of toDto, in the order they run
ProxyMappings == <<Mapping(<<"profile", Dot, "bio">>, <<"name">>), Mapping(<<"id">>, <<"id">>)>>

\* the classes with decorators, and all the mapper classes
MapperClasses == {"UserMapper", "UserAbstractMapper"}
ProxiedClasses == MapperClasses \cup {"BareMapper", "BrokenMapper"}

\* the argument lists of a method call: the source, the source and one more
\* argument, null
ArgLists == {<<Ref(1)>>, <<Ref(1), Num(1)>>, <<Null>>}

InitProxy ==
    /\ mappers = <<>>
    /\ calls = <<>>
    /\ instances = <<>>
    /\ \E tm \in ProxySources : heap = Build(<<>>, tm).h

\* the decorators of a class run in their order, all of them or the first ones
NextProxy ==
    \/ \E cls \in MapperClasses, k \in 1..Len(ProxyMappings) :
          /\ instances = <<>>
          /\ Len(getMappings(mappers, Fn(cls, "constructor"), "toDto")) = k - 1
          /\ RegisterMapping(cls, "toDto", ProxyMappings[k])
    \/ \E cls \in ProxiedClasses : CreateMapperProxy(cls)
    \/ NewMapper("UserMapper")
    \/ \E n \in 1..Len(instances), args \in ArgLists :
          IsObject(instances[n]) /\ MethodCall(instances[n], "toDto", args)
    \/ \E n \in 1..Len(instances), args \in ArgLists :
          /\ IsObject(instances[n])
          /\ Len(args) = 1
          /\ MethodCall(instances[n], "toDtoWithValidation", args)
    \/ \E n \in 1..Len(instances), outputType \in {"UserDto", "BrokenDto"} :
          /\ calls = <<>>         \* transform is tried before the methods are
          /\ IsObject(instances[n])
          /\ TransformCall(instances[n], "toDto", Ref(1), outputType)

SpecProxy == InitProxy /\ [][NextProxy]_vars

----------------------------------------------------------------------------
(* One call through the proxy, step by step: the property is read and the
   wrapper entered, the wrapper classifies the function it wraps, then it takes
   one of its two branches.  Between calls a method may be assigned on the
   proxy, which has no set trap, so that the next read finds another function. *)

\* a classification that remembers, per property key, what the first call found
ClassificationCached(cs, original, key) ==
    IF \E j \in 1..Len(cs) : cs[j].method = key /\ cs[j].pc # "entered"
    THEN cs[CHOOSE j \in 1..Len(cs) : cs[j].method = key /\ cs[j].pc # "entered"].shouldAuto
    ELSE isEmptyOrAbstractMethod(MethodSource(original))

\* isEmptyOrAbstractMethod(original, target, propKey), in a wrapper entered
\* after the calls cs
Classification(cs, original, key) == isEmptyOrAbstractMethod(MethodSource(original))

\* no call is under way
Idle == IF calls = <<>> THEN TRUE ELSE calls[Len(calls)].pc = "done"

\* the record of the call under way, changed
Step(record) == calls' = [calls EXCEPT ![Len(calls)] = record]

\* proxy[method](...args): the get trap reads original and the wrapper is entered
Enter(receiver, method, args) ==
    /\ Idle
    /\ Len(calls) < MaxCalls
    /\ TypeOf(ReflectGet(heap, receiver.r, method)) = "function"
    /\ calls' = Append(calls, [op |-> "dispatch", receiver |-> receiver, method |-> method,
                               args |-> args, original |-> ReflectGet(heap, receiver.r, method),
                               pre |-> heap, pc |-> "entered", classified |-> 0,
                               shouldAuto |-> FALSE, branch |-> "none",
                               result |-> Undefined, threw |-> FALSE, error |-> Undefined])
    /\ UNCHANGED <<mappers, heap, instances>>

\* const shouldAutoTransform = isEmptyOrAbstractMethod(...)
ClassifyStep ==
    /\ ~Idle
    /\ calls[Len(calls)].pc = "entered"
    /\ Step([calls[Len(calls)] EXCEPT
                !.pc = "classified",
                !.classified = @ + 1,
                !.shouldAuto = Classification(SubSeq(calls, 1, Len(calls) - 1),
                                              calls[Len(calls)].original,
                                              calls[Len(calls)].method)])
    /\ UNCHANGED <<mappers, heap, instances>>

\* the branch taken has ended in y
BranchEnds(branch, y) ==
    /\ heap' = y.h
    /\ Step([calls[Len(calls)] EXCEPT !.pc = "done", !.branch = branch,
                !.result = y.result, !.threw = y.threw, !.error = y.error])
    /\ UNCHANGED <<mappers, instances>>

\* return executeAutoTransform(target, String(propKey), args[0])
AutoBranch ==
    /\ ~Idle
    /\ calls[Len(calls)].pc = "classified"
    /\ calls[Len(calls)].shouldAuto
    /\ BranchEnds("auto", executeAutoTransform(mappers, heap,
                                               Ref(calls[Len(calls)].receiver.r),
                                               calls[Len(calls)].method,
                                               FirstArg(calls[Len(calls)].args)))

\* return original.apply(this, args)
ForwardBranch ==
    /\ ~Idle
    /\ calls[Len(calls)].pc = "classified"
    /\ ~calls[Len(calls)].shouldAuto
    /\ BranchEnds("forward", Apply(mappers, heap, calls[Len(calls)].original,
                                   calls[Len(calls)].receiver, calls[Len(calls)].args))

\* proxy[method] = fn: without a set trap the function becomes an own property
\* of the target
AssignMethod(receiver, method, fn) ==
    /\ Idle
    /\ ReflectGet(heap, receiver.r, method) # fn
    /\ heap' = Assign(heap, receiver.r, method, fn)
    /\ UNCHANGED <<mappers, instances, calls>>

\* the rule profile.bio -> name is registered for toDto of UserAbstractMapper, a
\* source is object 1 and there is one proxy, of a UserAbstractMapper
InitDispatch ==
    /\ mappers = registerMapping(<<>>, Fn("UserAbstractMapper", "constructor"), "toDto",
                                 ProxyMappings[1])
    /\ calls = <<>>
    /\ \E tm \in ProxySources :
          /\ heap = Append(Build(<<>>, tm).h, Obj("UserAbstractMapper", EmptyProps))
          /\ instances = <<Proxy(Len(Build(<<>>, tm).h) + 1)>>

NextDispatch ==
    \/ \E method \in {"toDto", "toDtoWithValidation"}, args \in {<<Ref(1)>>, <<Null>>} :
          Enter(instances[1], method, args)
    \/ ClassifyStep
    \/ AutoBranch
    \/ ForwardBranch
    \/ \E fn \in {Fn("UserMapper", "toDto"), Fn("UserAbstractMapper", "toDto")} :
          AssignMethod(instances[1], "toDto", fn)

SpecDispatch == InitDispatch /\ [][NextDispatch]_vars

----------------------------------------------------------------------------
(* Properties: custom methods behind the proxy *)

\* the function a proxy call reaches: the property of the underlying instance
Original(c) == ReflectGet(c.pre, c.receiver.r, c.method)

\* the same call made on the plain instance the proxy wraps
OnPlainInstance(c) == Invoke(mappers, c.pre, Original(c), Ref(c.receiver.r), c.args)

\* the call, which left the heap h, ended as the outcome y did
SameOutcome(c, h, y) ==
    /\ c.threw = y.threw
    /\ ~c.threw => DeepEqual(h, c.result, y.h, y.result, MaxDepth)

\* C1: a method the classifier treats as custom, called through the proxy,
\* returns what the same call on a plain instance returns (and throws when it
\* throws); with rules registered for the method, both apply them.
C1_CustomMethodUnchanged ==
    \A i \in Calls("method") :
        (calls[i].receiver.t = "proxy"
            /\ ~shouldAutoTransform[Original(calls[i])])
        => SameOutcome(calls[i], PostOf(i), OnPlainInstance(calls[i]))


\* the call that has just ended, in a step that appends one
Ended(op) ==
    /\ Len(calls') = Len(calls) + 1
    /\ calls'[Len(calls')].op = op

ViaPlaceholder(c) ==
    /\ c.receiver.t = "proxy"
    /\ shouldAutoTransform[Original(c)]

\* the return type the compiler recorded for the method of the call
RecordedType(c) == DesignReturnType(c.pre, Ref(c.receiver.r), c.method)

\* the call, which left the heap h, returned what transform, ended in x, returned
MatchesTransform(c, h, x) ==
    ~x.threw => (~c.threw /\ DeepEqual(h, c.result, x.h, x.output, MaxDepth))

\* C16 (synthesized dispatch equals direct transform): a placeholder method m
\* with recorded return type R, called through the proxy as m(arg0, ...rest),
\* returns a value deep-equal to transform(instance, 'm', arg0, R), whatever
\* arg0 and the rest arguments are.
C16_SynthesizedDispatch ==
    \A i \in Calls("method") :
        (ViaPlaceholder(calls[i]) /\ RecordedType(calls[i]) # Undefined)
        => MatchesTransform(calls[i], PostOf(i),
                            transform(mappers, calls[i].pre, Ref(calls[i].receiver.r),
                                      calls[i].method, calls[i].args[1],
                                      RecordedType(calls[i]).cls))

\* proxy.toDto(source, 1) on a UserAbstractMapper with the rule profile.bio -> name
\* has returned { id: 7, name: 'x' }
C16_Witness ==
    \E i \in Calls("method") :
        LET c == calls[i]
        IN /\ ViaPlaceholder(c)
           /\ c.pre[c.receiver.r].cls = "UserAbstractMapper"
           /\ c.args = <<Ref(1), Num(1)>>
           /\ getMappings(mappers, Fn("UserAbstractMapper", "constructor"), "toDto") # <<>>
           /\ ~c.threw
           /\ Member(PostOf(i), c.result, "id") = Num(7)
           /\ Member(PostOf(i), c.result, "name") = Str("x")


\* the error a caller gets for a placeholder without a recorded return type
MissingMetadata(methodName) ==
    AutoTransformFailed(methodName, MissingReturnType(methodName))

\* the call failed with the missing-return-type error, which names its method
FailedForMetadata(c) == c.threw /\ c.error = MissingMetadata(c.method)

\* C17 (missing metadata): a method call through the proxy fails with the
\* missing-return-type error exactly when the method is classified placeholder
\* and no return type is recorded for it.  The error names the method, no object
\* has been constructed when it is raised, creating the proxy does not raise it,
\* and a custom method without a recorded return type runs: toDtoWithValidation
\* on a named source returns.
C17_MissingMetadata ==
    /\ \A i \in Calls("method") :
          LET c == calls[i]
          IN c.receiver.t = "proxy" =>
               /\ FailedForMetadata(c) <=> (ViaPlaceholder(c) /\ RecordedType(c) = Undefined)
               /\ FailedForMetadata(c) => PostOf(i) = c.pre
               /\ (/\ c.method = "toDtoWithValidation"
                   /\ RecordedType(c) = Undefined
                   /\ IsObject(c.args[1])
                   /\ Truthy(Member(c.pre, c.args[1], "name")))
                  => ~c.threw
    /\ \A n \in 1..Len(instances) :
          IsObject(instances[n]) \/ instances[n] = ConstructorError("BrokenMapper")

\* createMapperProxy(BareMapper) has returned a proxy, and proxy.toDto(source) has
\* failed for the missing return type of toDto, leaving no new object
C17_Witness ==
    \E i \in Calls("method") :
        LET c == calls[i]
        IN /\ c.receiver.t = "proxy"
           /\ c.pre[c.receiver.r].cls = "BareMapper"
           /\ c.method = "toDto"
           /\ c.args = <<Ref(1)>>
           /\ c.threw
           /\ c.error.method = "toDto"
           /\ c.error.quotes = MissingReturnType("toDto")
           /\ Len(PostOf(i)) = Len(c.pre)


\* the call went through a proxy to a method the classifier takes for custom
ViaCustom(c) ==
    /\ c.receiver.t = "proxy"
    /\ ~shouldAutoTransform[Original(c)]

\* C18 (custom-method exceptions pass through): the error a custom method throws
\* when called through the proxy is the error its caller receives, the same
\* value: the TypeError of reading a property of null, and the
\* Error('Username cannot be empty') that toDtoWithValidation throws for a
\* source without a name.
C18_CustomExceptionsPassThrough ==
    \A i \in Calls("method") :
        LET c == calls[i]
        IN ViaCustom(c) =>
             /\ c.threw => c.error \in {TypeError, UsernameEmpty}
             /\ c.method = "toDtoWithValidation" =>
                   /\ IsNullish(c.args[1]) => (c.threw /\ c.error = TypeError)
                   /\ (IsObject(c.args[1]) /\ ~Truthy(Member(c.pre, c.args[1], "name")))
                         => (c.threw /\ c.error = UsernameEmpty /\ PostOf(i) = c.pre)

\* proxy.toDtoWithValidation(source) has thrown Error('Username cannot be empty')
\* for a source whose name is ''
C18_Witness ==
    \E i \in Calls("method") :
        LET c == calls[i]
        IN /\ ViaCustom(c)
           /\ c.method = "toDtoWithValidation"
           /\ c.args = <<Ref(1)>>
           /\ Member(c.pre, Ref(1), "name") = Str("")
           /\ c.threw
           /\ c.error = UsernameEmpty


\* the call, which left the heap h, ended exactly as the outcome y
ExactOutcome(c, h, y) ==
    /\ c.threw = y.threw
    /\ c.error = y.error
    /\ c.result = y.result
    /\ h = y.h

Synthesized(c) ==
    TransformOutcome(transform(mappers, c.pre, Ref(c.receiver.r), "toDto", c.args[1],
                               "UserDto"))

\* C20 (nested auto-implementation): a custom method called through the proxy
\* that calls the placeholder this.toDto(entity) gets the synthesized transform
\* result from it, not the empty object of the placeholder's body:
\* toDtoWithValidation returns what transform returns for toDto, a UserDto, with
\* validated set on it.
C20_NestedAutoImplementation ==
    \A i \in Calls("method") :
        (/\ ViaCustom(calls[i])
         /\ calls[i].method = "toDtoWithValidation"
         /\ ~calls[i].threw)
        => /\ PostOf(i)[calls[i].result.r].cls = "UserDto"
           /\ SameOutcome(calls[i], PostOf(i), Validated(Synthesized(calls[i])))

\* proxy.toDtoWithValidation(source) on a UserAbstractMapper with the rule
\* profile.bio -> name has returned { id: 7, name: 'x', validated: true }
C20_Witness ==
    \E i \in Calls("method") :
        LET c == calls[i]
        IN /\ ViaCustom(c)
           /\ c.method = "toDtoWithValidation"
           /\ getMappings(mappers, Fn("UserAbstractMapper", "constructor"), "toDto") # <<>>
           /\ ~c.threw
           /\ Member(PostOf(i), c.result, "id") = Num(7)
           /\ Member(PostOf(i), c.result, "name") = Str("x")
           /\ Member(PostOf(i), c.result, "validated") = Bool(TRUE)


\* transform ended as x: the same rules applied, the same outcome
AppliesRulesOf(c, h, x) ==
    /\ c.mappings = x.mappings
    /\ c.threw = x.threw
    /\ ~c.threw => DeepEqual(h, c.output, x.h, x.output, MaxDepth)

\* C27 (mapper identity through the proxy): transform(p, m, S, T) with a proxy
\* p of a mapper of class M applies the rules registered for (M, m), and gives
\* what transform(instance of M, m, S, T) gives.
C27_ProxyKeepsMapperIdentity ==
    \A i \in Calls("transform") :
        calls[i].mapper.t = "proxy"
        => AppliesRulesOf(calls[i], PostOf(i),
                          transform(mappers, calls[i].pre, Ref(calls[i].mapper.r),
                                    calls[i].method, calls[i].input, calls[i].outputType))


----------------------------------------------------------------------------
(* Properties: the registry *)

\* the registry a call left behind
RegistryAfter(i) == IF i < Len(calls) THEN calls[i + 1].registry ELSE mappers

\* the rules passed to registerMapping(cls, method, .) by the first n calls, in
\* call order
RECURSIVE Passed(_, _, _)
Passed(n, cls, method) ==
    IF n = 0 THEN <<>>
    ELSE IF /\ calls[n].op = "registerMapping"
            /\ calls[n].mapper = cls
            /\ calls[n].method = method
         THEN Append(Passed(n - 1, cls, method), calls[n].option)
         ELSE Passed(n - 1, cls, method)

\* C21 (registry contents): getMappings(T, m) returns exactly the rules passed
\* to registerMapping(T, m, .) before it, in call order, hence the empty
\* sequence for a pair without rules, whether T is registered or not and
\* whatever the method name; getMappings does not throw.
C21_RegistryContents ==
    \A i \in Calls("getMappings") :
        /\ ~calls[i].threw
        /\ calls[i].isArray
        /\ calls[i].result = Passed(i - 1, calls[i].mapper, calls[i].method)


\* the types the first n calls registered, each once, in the order of their
\* first registration by registerMapper or registerMapping
RECURSIVE FirstRegistered(_)
FirstRegistered(n) ==
    IF n = 0 THEN <<>>
    ELSE IF /\ calls[n].op \in {"registerMapper", "registerMapping"}
            /\ \A k \in 1..Len(FirstRegistered(n - 1)) :
                  FirstRegistered(n - 1)[k] # Fn(calls[n].mapper, "constructor")
         THEN Append(FirstRegistered(n - 1), Fn(calls[n].mapper, "constructor"))
         ELSE FirstRegistered(n - 1)

\* C22 (registerMapper is idempotent): registerMapper for a type the registry
\* already has, registered by registerMapper or by an earlier registerMapping,
\* leaves the registry, and so every rule list of the type, as it was; and
\* getAllMappers returns each registered type once, in the order of first
\* registration.
C22_RegisterMapperIdempotent ==
    /\ \A i \in Calls("registerMapper") :
          HasMapper(calls[i].registry, Fn(calls[i].mapper, "constructor"))
          => RegistryAfter(i) = calls[i].registry
    /\ \A i \in Calls("getAllMappers") : calls[i].result = FirstRegistered(i - 1)

\* registerMapping(UserMapper, 'toDto', rule), then registerMapper(UserMapper),
\* as the decorators of a class run; getAllMappers then returns the class once
\* and the rule is still registered
C22_Witness ==
    /\ Len(calls) = 3
    /\ calls[1].op = "registerMapping" /\ calls[1].mapper = "UserMapper"
    /\ calls[1].method = "toDto"
    /\ calls[2].op = "registerMapper" /\ calls[2].mapper = "UserMapper"
    /\ calls[3].op = "getAllMappers"
    /\ calls[3].result = <<Fn("UserMapper", "constructor")>>
    /\ getMappings(mappers, Fn("UserMapper", "constructor"), "toDto") = <<calls[1].option>>


\* what getMappings answers for the pair is the same under both registries
SameRules(ms, ns, cls, method) ==
    /\ getMappingsInherits(ms, Fn(cls, "constructor"), method)
          = getMappingsInherits(ns, Fn(cls, "constructor"), method)
    /\ ~getMappingsInherits(ms, Fn(cls, "constructor"), method)
          => getMappings(ms, Fn(cls, "constructor"), method)
                = getMappings(ns, Fn(cls, "constructor"), method)

\* the mapper instance of the class in the heap of the registry's specification
InstanceOf(cls) == IF cls = "UserMapper" THEN Ref(1) ELSE Ref(2)

\* transform for the pair, on the source of the heap, is the same under both
SameTransform(ms, ns, h, cls, method) ==
    transform(ms, h, InstanceOf(cls), method, Ref(3), "UserDto")
        = transform(ns, h, InstanceOf(cls), method, Ref(3), "UserDto")

\* C28 (registry isolation): registerMapping(T, m, r) changes the rule list of
\* (T, m) only.  For every other pair (T', m'), the same method name on another
\* type and another method name on the same type included, getMappings answers
\* as before and transform for (T', m') gives the same result as before.
C28_RegistryIsolation ==
    \A i \in Calls("registerMapping") :
        \A cls \in RegistryClasses, method \in RegistryMethods :
            (cls # calls[i].mapper \/ method # calls[i].method)
            => /\ SameRules(calls[i].registry, RegistryAfter(i), cls, method)
               /\ SameTransform(calls[i].registry, RegistryAfter(i), calls[i].pre,
                                cls, method)


\* the sequence a is the beginning of the sequence b
IsPrefix(a, b) == Len(a) <= Len(b) /\ SubSeq(b, 1, Len(a)) = a

\* the registry ns has every type of ms, and every rule list of ms begins the
\* rule list ns has for the same type and method
Grows(ms, ns) ==
    \A i \in 1..Len(ms) :
        /\ HasMapper(ns, ms[i].key)
        /\ \A method \in DOMAIN ms[i].methods :
              /\ method \in DOMAIN MetaOf(ns, ms[i].key).methods
              /\ IsPrefix(ms[i].methods[method], MetaOf(ns, ms[i].key).methods[method])

DispatchedOnce ==
    \A i \in Calls("dispatch") :
        LET c == calls[i]
        IN /\ c.pc \in {"entered", "classified", "done"}
           /\ i < Len(calls) => c.pc = "done"
           /\ c.pc = "entered" => (c.classified = 0 /\ c.branch = "none")
           /\ c.pc # "entered" =>
                 (c.classified = 1 /\ c.shouldAuto = shouldAutoTransform[c.original])
           /\ c.pc = "classified" => c.branch = "none"
           /\ c.pc = "done" =>
                 /\ c.branch = (IF shouldAutoTransform[c.original] THEN "auto" ELSE "forward")
                 /\ c.threw => c.result = Undefined

\* the next step of a call under way: from entered to classified, from
\* classified to done, and nothing else happens in between
DispatchAdvances ==
    ~Idle => /\ Len(calls') = Len(calls)
             /\ calls[Len(calls)].pc = "entered" => calls'[Len(calls)].pc = "classified"
             /\ calls[Len(calls)].pc = "classified" => calls'[Len(calls)].pc = "done"

\* C25 (per-call dispatch): a call through the proxy classifies the function
\* it wraps once, before it dispatches; it then takes one of the two branches
\* and ends, in a return or a throw, with no step in between and none repeated.
\* The classification is computed for the function this call read, whatever an
\* earlier call of the same method found.
C25_PerCallDispatch == []DispatchedOnce /\ [][DispatchAdvances]_vars

\* proxy.toDto(source) took the automatic branch; then toDto was assigned the
\* method of UserMapper, whose body calls transform, and proxy.toDto(source)
\* took the other branch
C25_Witness ==
    /\ Len(calls) = 2
    /\ calls[1].method = "toDto" /\ calls[2].method = "toDto"
    /\ calls[1].receiver = calls[2].receiver
    /\ calls[1].pc = "done" /\ calls[1].branch = "auto" /\ ~calls[1].threw
    /\ calls[2].pc = "done" /\ calls[2].branch = "forward" /\ ~calls[2].threw
    /\ calls[2].original = Fn("UserMapper", "toDto")


----------------------------------------------------------------------------
(* Properties: the classifier *)

\* the statements of a body, its comments left out
RECURSIVE StatementsOf(_)
StatementsOf(body) ==
    IF body = <<>> THEN <<>>
    ELSE IF Head(body) \in Comments THEN StatementsOf(Tail(body))
    ELSE <<Head(body)>> \o StatementsOf(Tail(body))

\* a body that is `return {};` or `return {} as T;` preceded by comments only, or
\* that holds no statement at all
PlaceholderShape(body) ==
    /\ StatementsOf(body) \in {<<>>, <<"ret">>, <<"retAs">>}
    /\ body # <<>> => (StatementsOf(body) = <<>> \/ body[Len(body)] \notin Comments)

\* C14 (accepted placeholder shapes): the classifier answers placeholder for a
\* body that is `return {};` or `return {} as T;` or holds no statement, comments
\* before it or not, and custom for the body
\* `const dto = this.toDto(entity); dto.extra = 1; return dto;`.
C14_AcceptedShapes ==
    \A i \in Calls("classify") :
        /\ PlaceholderShape(calls[i].body) => calls[i].result
        /\ calls[i].body = <<"call", "assign", "retDto">> => ~calls[i].result

\* C15 (closed pattern set): a body with a statement other than a sole return
\* of an empty object literal is classified custom.
C15_ClosedPatternSet ==
    \A i \in Calls("classify") :
        StatementsOf(calls[i].body) \notin {<<>>, <<"ret">>, <<"retAs">>}
            => ~calls[i].result

----------------------------------------------------------------------------
(* Properties: the documented example *)

\* v.k1.k2..., undefined below a null or an undefined
RECURSIVE FieldOf(_, _, _)
FieldOf(h, v, keys) ==
    IF keys = <<>> THEN v
    ELSE IF IsNullish(v) THEN Undefined
    ELSE FieldOf(h, Member(h, v, Head(keys)), Tail(keys))

\* the entity of the README: id 1, a name, an age, an email and a profile
IsReadmeEntity(h, e) ==
    /\ FieldOf(h, e, <<"id">>) = Num(1)
    /\ FieldOf(h, e, <<"fullName">>) = Str("John Doe")
    /\ FieldOf(h, e, <<"age">>) = Num(30)
    /\ FieldOf(h, e, <<"email">>) = Str("john@example.com")
    /\ FieldOf(h, e, <<"profile", "bio">>) = Str("Software Developer")
    /\ FieldOf(h, e, <<"profile", "avatar">>) = Str("avatar.jpg")

\* the object the README prints
ReadmeOutput ==
    [id |-> Num(1), name |-> Str("John Doe"), age |-> Num(30),
     email |-> Str("john@example.com"), bio |-> Str("Software Developer"),
     avatar |-> Str("avatar.jpg")]

\* C23 (documented auto-mapping with a plain DTO): when the target class is
\* the UserDto of the README, which declares its fields without initialisers
\* and has no constructor, toDto copies every source field that has the name of
\* a declared field and no explicit rule (id, age, email), and for the entity
\* of the README the result is the object the README prints.
C23_PlainDtoAutoMapping ==
    \A i \in Calls("transform") :
        LET c == calls[i]
        IN (c.method = "toDto" /\ c.outputType \in {"ReadmeUserDto", "ReadmeUserDtoDefined"})
           => /\ ~c.threw
              /\ \A key \in InputKeys(c.pre, c.input) \cap {"id", "age", "email"} :
                    /\ HasOwn(PostOf(i), c.output.r, key)
                    /\ PostOf(i)[c.output.r].props[key] = Member(c.pre, c.input, key)
              /\ IsReadmeEntity(c.pre, c.input) => PostOf(i)[c.output.r].props = ReadmeOutput

\* the fields the round trip covers, and the type of the default each has in
\* the class constructed
RoundTripFields ==
    {<<"id">>, <<"fullName">>, <<"email">>, <<"profile", "bio">>, <<"profile", "avatar">>}
DefaultType(keys) == IF keys = <<"id">> THEN "number" ELSE "string"

\* every covered field of e is there, non-null and of the type of its default
Eligible(h, e) ==
    \A keys \in RoundTripFields : TypeOf(FieldOf(h, e, keys)) = DefaultType(keys)

\* call j is toEntity on the DTO that call i, toDto, returned
IsRoundTrip(i, j) ==
    /\ i < j
    /\ calls[i].method = "toDto" /\ calls[i].outputType = "SpecUserDto"
    /\ ~calls[i].threw
    /\ calls[j].method = "toEntity" /\ calls[j].outputType = "SpecUserEntity"
    /\ calls[j].input = calls[i].output

\* C30 (reverse mapping round trip): with the three toDto rules and the
\* mirrored toEntity rules, for every entity e whose covered fields are non-null
\* and of the type of the target's defaults, toEntity(toDto(e)) has the value of
\* e at id, fullName, email, profile.bio and profile.avatar.
C30_ReverseRoundTrip ==
    \A i, j \in Calls("transform") :
        (IsRoundTrip(i, j) /\ Eligible(calls[i].pre, calls[i].input))
        => /\ ~calls[j].threw
           /\ \A keys \in RoundTripFields :
                 FieldOf(PostOf(j), calls[j].output, keys)
                     = FieldOf(calls[i].pre, calls[i].input, keys)

\* an entity with id 1, a name, an email, a bio and an avatar has made the
\* round trip, and came back in an object of its own
C30_Witness ==
    \E i, j \in Calls("transform") :
        /\ IsRoundTrip(i, j)
        /\ ~calls[j].threw
        /\ FieldOf(calls[i].pre, calls[i].input, <<"id">>) = Num(1)
        /\ FieldOf(calls[i].pre, calls[i].input, <<"fullName">>) = Str("John Doe")
        /\ FieldOf(calls[i].pre, calls[i].input, <<"email">>) = Str("john@example.com")
        /\ FieldOf(calls[i].pre, calls[i].input, <<"profile", "bio">>)
               = Str("Software Developer")
        /\ FieldOf(PostOf(j), calls[j].output, <<"profile", "bio">>)
               = Str("Software Developer")
        /\ calls[j].output # calls[i].input

====
